---------------------------- MODULE Spec2Model ----------------------------
(***************************************************************************)
(* State engine of cliciv (src/src/game): the three ledgers (Resources,    *)
(* Citizens, Land), the per-iteration transition (work, action, log        *)
(* compaction), the hash chain with its nonce search, and the replay       *)
(* verification of a save.                                                 *)
(*                                                                         *)
(* Representation.  Every f64 amount is kept as an integer number of       *)
(* thousandths (Milli), so that round_to_2 is a real rounding to a         *)
(* multiple of 0.01.  DefaultHasher is a fixed function of the words       *)
(* written to it.  A u64 hash is kept as a record [val, low]: val, on      *)
(* HashBits bits instead of 64, is what the nonce search compares with     *)
(* max_hash, and low is the byte the random source is seeded with.  Where  *)
(* two hashes are compared for equality (State::check), the u64 is paired  *)
(* with the tuple of the hashed inputs, which makes the hash               *)
(* collision-free.  The ChaCha stream is a deterministic function of the   *)
(* 32 seed bytes and of the position in the stream.                        *)
(***************************************************************************)
EXTENDS Integers, Sequences, FiniteSets, Bags, TLC

\* ------------------------------------------------------------------ bounds

\* Seeds given to State::new: 0..MaxSeed.
MaxSeed == 1
\* Iterations a behaviour applies after the session it starts from.
MaxApplied == 1
\* Free land, at most, of the Land ledgers a behaviour of SpecLand starts from.
MaxFreeLand == 2
\* Iterations of a behaviour of SpecIdle, which idles on from genesis.
MaxIdle == 130
\* Lots of land of a behaviour of SpecLots, in place of the 1000 of Land::default.
MaxLots == 1
\* Iterations, at most, asked of one call of repeat where its result is compared.
MaxTimes == 2

\* ------------------------------------------------------- numeric utilities

\* utils.rs:24, the factor of round_to_2.
Cents == 100
\* Thousandths per unit: one decimal digit below the cents round_to_2 keeps.
Milli == 10 * Cents

\* f64::round of x / d: to the nearest integer, halves away from zero.
f64_round(x, d) ==
    IF x >= 0 THEN (2 * x + d) \div (2 * d)
              ELSE -((2 * (-x) + d) \div (2 * d))

\* RoundTo2::round_to_2: (self * 100.0).round() / 100.0, on thousandths.
round_to_2(x) == f64_round(x * Cents, Milli) * (Milli \div Cents)

\* f64::min.
f64_min(a, b) == IF a <= b THEN a ELSE b

\* `amount as usize` taking a started unit for a whole one.
as_usize_rounding_up(x) == IF x <= 0 THEN 0 ELSE (x + Milli - 1) \div Milli

\* `amount as usize`: truncation, saturating at 0 for a negative value.
as_usize(x) == IF x <= 0 THEN 0 ELSE x \div Milli

\* `amount as i64`: truncation towards zero.
as_i64(x) == IF x >= 0 THEN x \div Milli ELSE -((-x) \div Milli)

\* The least element of a non-empty set of integers.
MinOf(S) == CHOOSE n \in S : \A m \in S : n <= m

\* The sum of a sequence of naturals.
Sum(words) == BagCardinality([i \in 1..Len(words) |-> words[i] + 1]) - Len(words)

\* Result::Ok and Result::Err.
Ok(v) == [ok |-> TRUE, val |-> v]
Err(e) == [ok |-> FALSE, err |-> e]

\* ------------------------------------------------------------- the catalog

PrimaryResource == {"Food", "Wood", "Stone"}
Job == {"Farmer", "Woodcutter", "Miner"}
Buildings == {"Tent", "WoodenHut", "Barn", "WoodStockpile", "StoneStockpile"}

\* enum Action, one tuple per variant.
Action ==
    {<<"Idle">>, <<"RecruitCitizen">>}
        \cup {<<"Collect", r>> : r \in PrimaryResource}
        \cup {<<"AssignJob", j>> : j \in Job}
        \cup {<<"DischargeJob", j>> : j \in Job}
        \cup {<<"Build", b>> : b \in Buildings}

\* PrimaryResource::get_secondary_resource.
get_secondary_resource(primary_resource) ==
    CASE primary_resource = "Food" -> "Skins"
      [] primary_resource = "Wood" -> "Herbs"
      [] primary_resource = "Stone" -> "Ore"

\* The field of Resources that stores a resource's amount.
amount_field(resource) ==
    CASE resource = "Food" -> "food"
      [] resource = "Wood" -> "wood"
      [] resource = "Stone" -> "stone"
      [] resource = "Skins" -> "skins"
      [] resource = "Herbs" -> "herbs"
      [] resource = "Ore" -> "ore"
      [] resource = "Leather" -> "leather"
      [] resource = "Piety" -> "piety"
      [] resource = "Metal" -> "metal"
      [] resource = "Gold" -> "gold"
      [] resource = "Corpses" -> "corpses"

\* Buildings::costs, in the order of the cost table.
costs(building) ==
    CASE building = "Tent" -> << <<"Wood", 2 * Milli>>, <<"Skins", 2 * Milli>> >>
      [] building = "WoodenHut" -> << <<"Wood", 20 * Milli>>, <<"Skins", 1 * Milli>> >>
      [] building = "Barn" -> << <<"Wood", 100 * Milli>> >>
      [] building = "WoodStockpile" -> << <<"Wood", 100 * Milli>> >>
      [] building = "StoneStockpile" -> << <<"Wood", 100 * Milli>> >>

\* Buildings::population_capacity_increase.
population_capacity_increase(building) ==
    CASE building = "Tent" -> 1
      [] building = "WoodenHut" -> 3
      [] OTHER -> 0

\* Buildings::primary_resource_storage_increase; <<>> is None.
primary_resource_storage_increase(building) ==
    CASE building = "Barn" -> <<"Food", 100 * Milli>>
      [] building = "WoodStockpile" -> <<"Wood", 100 * Milli>>
      [] building = "StoneStockpile" -> <<"Stone", 100 * Milli>>
      [] OTHER -> <<>>

\* Job::get_production_rate: 1.2, 0.5 and 0.2.
get_production_rate(job) ==
    CASE job = "Farmer" -> 12 * (Milli \div 10)
      [] job = "Woodcutter" -> 5 * (Milli \div 10)
      [] job = "Miner" -> 2 * (Milli \div 10)

\* Job::get_resource_production.
get_resource_production(job) ==
    CASE job = "Farmer" -> "Food"
      [] job = "Woodcutter" -> "Wood"
      [] job = "Miner" -> "Stone"

\* ------------------------------------------------------- the random source

\* A u64 hash is the record [val, low]: val, its HashBits leading bits, is
\* what the nonce search compares with max_hash; low is its trailing byte.
\* HashBits stands for the 64 of the code, so that the ceiling of max_hash
\* is exact up to 2^HashBits iterations and 0 beyond.
HashBits == 6

pow2(n) == 2 ^ n

\* The leading bits of u64::MAX (state.rs:160).
u64_MAX == pow2(HashBits) - 1

u64_RANGE == pow2(HashBits)

\* (x >> (8 * i)) & 0b11111111, an arithmetic shift as for i128.
RECURSIVE byte_of(_, _)
byte_of(x, i) ==
    IF i = 0 THEN x % 256
    ELSE IF x = 0 THEN 0
    ELSE byte_of(x \div 256, i - 1)

\* State::get_rng, the 32 seed bytes: 16 of seed, 8 of prev_hash (its
\* trailing byte first), 8 of padding.
rng_seed(seed, prev_hash) ==
    [i \in 1..32 |->
        IF i <= 16 THEN byte_of(seed, i - 1)
        ELSE IF i = 17 THEN prev_hash.low
        ELSE IF i <= 24 THEN byte_of(prev_hash.val, i - 18)
        ELSE 0]

\* ChaChaRng::from_seed: the key of the stream, a fixed function of the
\* 32 bytes, each weighted by its place.
from_seed(bytes) ==
    (Sum([i \in 1..Len(bytes) |-> bytes[i] * (2 * i + 29)]) * 31 + 7) % 65536

\* State::get_context: the stream at its start.
get_context(seed, prev_hash) ==
    [key |-> from_seed(rng_seed(seed, prev_hash)), pos |-> 0]

\* The word of the stream at position pos, in 0..255.
next_u64(ctx, pos) == ((ctx.key * 37 + pos * 101 + 11) \div 7) % 256

\* Bernoulli::from_ratio(1, 10) sampled on the word at position pos: 1 on success.
bernoulli_sample(ctx, pos) == IF next_u64(ctx, pos) * 10 < 1 * 256 THEN 1 ELSE 0

\* sample_iter(&mut ctx.rng).take(n).map(u64::from).sum(), from ctx.pos on.
RECURSIVE sample_sum(_, _)
sample_sum(ctx, n) ==
    IF n = 0 THEN 0
    ELSE bernoulli_sample(ctx, ctx.pos + n - 1) + sample_sum(ctx, n - 1)

\* ---------------------------------------------------- the Resources ledger

\* impl Default for Resources.
Resources_default ==
    [food |-> 0, food_cons_rate |-> 0, food_prod_rate |-> 0,
     food_prod_rate_multiplier |-> 1 * Milli, max_food |-> 200 * Milli,
     wood |-> 0, wood_prod_rate |-> 0,
     wood_prod_rate_multiplier |-> 1 * Milli, max_wood |-> 200 * Milli,
     stone |-> 0, stone_prod_rate |-> 0,
     stone_prod_rate_multiplier |-> 1 * Milli, max_stone |-> 200 * Milli,
     skins |-> 0, herbs |-> 0, ore |-> 0, leather |-> 0, piety |-> 0,
     metal |-> 0, gold |-> 0, corpses |-> 0]

\* A ledger together with the random source its operation has advanced.
WithCtx(r, ctx) == [r |-> r, ctx |-> ctx]

\* The arms of Resources::increase on Resource::Primary, given the sum of the
\* samples.  The stone arm clamps at max_wood, as resources.rs:120 does.
increase_arm(self, primary_resource, amount, secondary_resource_amount) ==
    CASE primary_resource = "Food" ->
           [self EXCEPT
              !.food = round_to_2(f64_min(self.food + amount, self.max_food)),
              !.skins = round_to_2(self.skins + secondary_resource_amount)]
      [] primary_resource = "Wood" ->
           [self EXCEPT
              !.wood = round_to_2(f64_min(self.wood + amount, self.max_wood)),
              !.herbs = round_to_2(self.herbs + secondary_resource_amount)]
      [] primary_resource = "Stone" ->
           [self EXCEPT
              !.stone = round_to_2(f64_min(self.stone + amount, self.max_wood)),
              !.ore = round_to_2(self.ore + secondary_resource_amount)]

\* Resources::increase on Resource::Primary (the only variant a caller
\* passes): `amount as usize` samples are taken from the stream.  Ok carries
\* the ledger and the random source as the call leaves them.
increase(self, primary_resource, amount, ctx) ==
    Ok(WithCtx(increase_arm(self, primary_resource, amount,
                            sample_sum(ctx, as_usize(amount)) * Milli),
               [ctx EXCEPT !.pos = @ + as_usize(amount)]))

\* Resources::decrease testing the amounts as they are, not as i64.
decrease_untruncated(self, resource, amount) ==
    IF self[amount_field(resource)] - amount >= 0
    THEN Ok([self EXCEPT ![amount_field(resource)] = round_to_2(@ - amount)])
    ELSE Err(<<"NotEnaughtResource", resource>>)

\* Resources::decrease: the same test and update in every arm.
decrease(self, resource, amount) ==
    IF as_i64(self[amount_field(resource)]) - as_i64(amount) >= 0
    THEN Ok([self EXCEPT ![amount_field(resource)] = round_to_2(@ - amount)])
    ELSE Err(<<"NotEnaughtResource", resource>>)

\* Resources::increase_primary_resource_storage.
increase_primary_resource_storage(self, primary_resource, amount) ==
    CASE primary_resource = "Food" ->
           [self EXCEPT !.max_food = round_to_2(self.max_food + amount)]
      [] primary_resource = "Wood" ->
           [self EXCEPT !.max_wood = round_to_2(self.max_wood + amount)]
      [] primary_resource = "Stone" ->
           [self EXCEPT !.max_stone = round_to_2(self.max_stone + amount)]

\* Resources::increase_resource_production_rate, for a primary resource.
increase_resource_production_rate(self, resource, amount) ==
    CASE resource = "Food" ->
           [self EXCEPT !.food_prod_rate = round_to_2(self.food_prod_rate + amount)]
      [] resource = "Wood" ->
           [self EXCEPT !.wood_prod_rate = round_to_2(self.wood_prod_rate + amount)]
      [] resource = "Stone" ->
           [self EXCEPT !.stone_prod_rate = round_to_2(self.stone_prod_rate + amount)]
      [] OTHER -> self

\* decrease_resource_production_rate lowering the rate of food whatever the
\* resource.
decrease_rate_of_food(self, resource, amount) ==
    [self EXCEPT !.food_prod_rate = round_to_2(self.food_prod_rate - amount)]

\* Resources::decrease_resource_production_rate, for a primary resource.
decrease_resource_production_rate(self, resource, amount) ==
    CASE resource = "Food" ->
           [self EXCEPT !.food_prod_rate = round_to_2(self.food_prod_rate - amount)]
      [] resource = "Wood" ->
           [self EXCEPT !.wood_prod_rate = round_to_2(self.wood_prod_rate - amount)]
      [] resource = "Stone" ->
           [self EXCEPT !.stone_prod_rate = round_to_2(self.stone_prod_rate - amount)]
      [] OTHER -> self

\* increase_food_consumption setting the rate to the amount.
food_consumption_set(self, amount) ==
    [self EXCEPT !.food_cons_rate = round_to_2(amount)]

\* Resources::increase_food_consumption.
increase_food_consumption(self, amount) ==
    [self EXCEPT !.food_cons_rate = round_to_2(self.food_cons_rate + amount)]

\* The loop over building.costs() of Resources::apply_action, from cost i
\* on: the first decrease that fails ends it.
RECURSIVE pay_costs(_, _, _)
pay_costs(resources, cost_table, i) ==
    IF i > Len(cost_table) \/ ~resources.ok THEN resources
    ELSE pay_costs(decrease(resources.val, cost_table[i][1], cost_table[i][2]),
                   cost_table, i + 1)

\* The Build arm leaving every capacity as it was.
storage_kept(paid, storage) == paid

\* The `if let Some(..)` of the Build arm, after the costs are paid.
raise_storage(paid, storage) ==
    IF ~paid.ok \/ storage = <<>> THEN paid
    ELSE Ok(increase_primary_resource_storage(paid.val, storage[1], storage[2]))

\* The RecruitCitizen arm leaving the consumption of food as it was.
consumption_kept(paid) == paid

\* The RecruitCitizen arm, after the decrease of food.
raise_consumption(paid) ==
    IF paid.ok THEN Ok(increase_food_consumption(paid.val, 1 * Milli)) ELSE paid

\* The arms of Resources::apply_action that draw nothing from the random
\* source.
Resources_arm(self, action) ==
    CASE action[1] = "RecruitCitizen" ->
           raise_consumption(decrease(self, "Food", 20 * Milli))
      [] action[1] = "Build" ->
           raise_storage(pay_costs(Ok(self), costs(action[2]), 1),
                         primary_resource_storage_increase(action[2]))
      [] action[1] = "AssignJob" ->
           Ok(increase_resource_production_rate(
                  self, get_resource_production(action[2]),
                  get_production_rate(action[2])))
      [] action[1] = "DischargeJob" ->
           Ok(decrease_resource_production_rate(
                  self, get_resource_production(action[2]),
                  get_production_rate(action[2])))
      [] OTHER -> Ok(self)

\* The ledger of what increase returned.
ledger_of(increased) == IF increased.ok THEN Ok(increased.val.r) ELSE increased

\* Resources::apply_action.  Only Collect draws from the random source.
Resources_apply_action(self, action, ctx) ==
    IF action[1] = "Collect" THEN ledger_of(increase(self, action[2], 1 * Milli, ctx))
    ELSE Resources_arm(self, action)

\* The second and the third increase of Resources::work, each after the ?
\* on the one before; the rates are those of the ledger work was called on.
work_wood(self, worked) ==
    IF worked.ok
    THEN increase(worked.val.r, "Wood",
                  (self.wood_prod_rate * self.wood_prod_rate_multiplier) \div Milli,
                  worked.val.ctx)
    ELSE worked

work_stone(self, worked) ==
    IF worked.ok
    THEN increase(worked.val.r, "Stone",
                  (self.stone_prod_rate * self.stone_prod_rate_multiplier) \div Milli,
                  worked.val.ctx)
    ELSE worked

\* Resources::work: the three increases, in the order food, wood, stone.
work(self, ctx) ==
    work_stone(self, work_wood(self,
        increase(self, "Food",
                 (self.food_prod_rate * self.food_prod_rate_multiplier) \div Milli
                     - self.food_cons_rate,
                 ctx)))

\* ----------------------------------------------------- the Citizens ledger

\* #[derive(Default)] for Citizens.
Citizens_default ==
    [idle |-> 0, farmers |-> 0, woodcutters |-> 0, miners |-> 0, max_population |-> 0]

\* count leaving the idle citizens out.
count_without_idle(self) == self.farmers + self.woodcutters + self.miners

\* Citizens::count.
count(self) == self.idle + self.farmers + self.woodcutters + self.miners

\* The RecruitCitizen arm recruiting up to one citizen past max_population.
RecruitCitizen_past_max(self) ==
    IF count(self) <= self.max_population
    THEN Ok([self EXCEPT !.idle = @ + 1])
    ELSE Err(<<"PopulationLimitReached">>)

\* The RecruitCitizen arm of Citizens::apply_action.
RecruitCitizen_arm(self) ==
    IF count(self) < self.max_population
    THEN Ok([self EXCEPT !.idle = @ + 1])
    ELSE Err(<<"PopulationLimitReached">>)

\* The AssignJob arm leaving the idle counter as it was.
AssignJob_keeping_idle(self, job) ==
    IF self.idle > 0
    THEN CASE job = "Farmer" -> Ok([self EXCEPT !.farmers = @ + 1])
           [] job = "Woodcutter" -> Ok([self EXCEPT !.woodcutters = @ + 1])
           [] job = "Miner" -> Ok([self EXCEPT !.miners = @ + 1])
    ELSE Err(<<"NotEnaughtIdleWorkers">>)

\* The AssignJob arm of Citizens::apply_action.
AssignJob_arm(self, job) ==
    IF self.idle > 0
    THEN CASE job = "Farmer" /\ self.idle > 0 ->
                Ok([self EXCEPT !.idle = @ - 1, !.farmers = @ + 1])
           [] job = "Woodcutter" /\ self.idle > 0 ->
                Ok([self EXCEPT !.idle = @ - 1, !.woodcutters = @ + 1])
           [] job = "Miner" /\ self.idle > 0 ->
                Ok([self EXCEPT !.idle = @ - 1, !.miners = @ + 1])
           [] OTHER -> Ok(self)
    ELSE Err(<<"NotEnaughtIdleWorkers">>)

\* The DischargeJob arm naming the farmers in every error.
DischargeJob_naming_farmers(self, job) ==
    CASE job = "Farmer" /\ self.farmers > 0 ->
           Ok([self EXCEPT !.idle = @ + 1, !.farmers = @ - 1])
      [] job = "Woodcutter" /\ self.woodcutters > 0 ->
           Ok([self EXCEPT !.idle = @ + 1, !.woodcutters = @ - 1])
      [] job = "Miner" /\ self.miners > 0 ->
           Ok([self EXCEPT !.idle = @ + 1, !.miners = @ - 1])
      [] OTHER -> Err(<<"NoWorkersInJob", "Farmer">>)

\* The DischargeJob arm of Citizens::apply_action.
DischargeJob_arm(self, job) ==
    CASE job = "Farmer" /\ self.farmers > 0 ->
           Ok([self EXCEPT !.idle = @ + 1, !.farmers = @ - 1])
      [] job = "Woodcutter" /\ self.woodcutters > 0 ->
           Ok([self EXCEPT !.idle = @ + 1, !.woodcutters = @ - 1])
      [] job = "Miner" /\ self.miners > 0 ->
           Ok([self EXCEPT !.idle = @ + 1, !.miners = @ - 1])
      [] OTHER -> Err(<<"NoWorkersInJob", job>>)

\* Citizens::apply_action.
Citizens_apply_action(self, action) ==
    CASE action[1] = "RecruitCitizen" -> RecruitCitizen_arm(self)
      [] action[1] = "AssignJob" -> AssignJob_arm(self, action[2])
      [] action[1] = "DischargeJob" -> DischargeJob_arm(self, action[2])
      [] action[1] = "Build" ->
           Ok([self EXCEPT !.max_population = @ + population_capacity_increase(action[2])])
      [] OTHER -> Ok(self)

\* --------------------------------------------------------- the Land ledger

\* impl Default for Land.
Land_default ==
    [total_land |-> 1000, tents |-> 0, wooden_huts |-> 0, barns |-> 0,
     wood_stockpiles |-> 0, stone_stockpiles |-> 0]

\* Land::land_use.
land_use(self) ==
    self.tents + self.wooden_huts + self.barns + self.wood_stockpiles
        + self.stone_stockpiles

\* free_land counting one lot more than there is.
free_land_and_one(self) == self.total_land - land_use(self) + 1

\* Land::free_land, a u64 subtraction.
free_land(self) == self.total_land - land_use(self)

\* Land::apply_action.
Land_apply_action(self, action) ==
    CASE action[1] = "Build" ->
           IF free_land(self) > 0
           THEN CASE action[2] = "Tent" -> Ok([self EXCEPT !.tents = @ + 1])
                  [] action[2] = "WoodenHut" -> Ok([self EXCEPT !.wooden_huts = @ + 1])
                  [] action[2] = "Barn" -> Ok([self EXCEPT !.barns = @ + 1])
                  [] action[2] = "WoodStockpile" ->
                       Ok([self EXCEPT !.wood_stockpiles = @ + 1])
                  [] action[2] = "StoneStockpile" ->
                       Ok([self EXCEPT !.stone_stockpiles = @ + 1])
           ELSE Err(<<"NotEnaughtFreeLand">>)
      [] OTHER -> Ok(self)

\* -------------------------------------------------------------- the hashes

\* DefaultHasher, as a fixed function of the words written to it, in their
\* order: written adds up the words, each weighted by its place, and finish
\* mixes the sum into 16 bits.
written(words) ==
    Sum([i \in 1..Len(words) |-> (words[i] % 65536) * (2 * i + 29)])

finish(h) == ((h % 65536) * 31 + 7) % 65536

\* Resources::hash: the 21 fields in declared order.
Resources_hash(r) ==
    finish(written(<<r.food, r.food_cons_rate, r.food_prod_rate,
                     r.food_prod_rate_multiplier, r.max_food,
                     r.wood, r.wood_prod_rate, r.wood_prod_rate_multiplier, r.max_wood,
                     r.stone, r.stone_prod_rate, r.stone_prod_rate_multiplier,
                     r.max_stone,
                     r.skins, r.herbs, r.ore, r.leather, r.piety, r.metal,
                     r.gold, r.corpses>>))

\* Citizens::hash.
Citizens_hash(c) ==
    finish(written(<<c.idle, c.farmers, c.woodcutters, c.miners, c.max_population>>))

\* Land::hash.
Land_hash(l) ==
    finish(written(<<l.total_land, l.tents, l.wooden_huts, l.barns, l.wood_stockpiles,
                     l.stone_stockpiles>>))

\* prev_hash of a fresh State: 0.
ZeroHash == [val |-> 0, low |-> 0]

\* The hasher of State::hash with all its seven words written but the
\* fourth, the nonce.
hasher(self) ==
    written(<<self.seed, self.prev_hash.val * 256 + self.prev_hash.low,
              self.iterations, 0, Resources_hash(self.resources),
              Citizens_hash(self.citizens), Land_hash(self.land)>>)

\* hasher.write_usize(nonce) in the fourth place.
write_nonce(h, nonce) == h + (nonce % 65536) * (2 * 4 + 29)

\* State::hash as the u64 it returns.
hash_u64(self, nonce) ==
    LET h == finish(write_nonce(hasher(self), nonce))
    IN  [val |-> h % u64_RANGE, low |-> (h \div u64_RANGE) % 256]

\* State::hash as a collision-free hash: the u64 together with everything
\* that was written, so that two hashes are equal only if their inputs are.
hash(self, nonce) ==
    [u64 |-> hash_u64(self, nonce),
     id |-> <<self.seed, self.prev_hash, self.iterations, nonce,
              self.resources, self.citizens, self.land>>]

\* next_power_of_two returning n itself, 1 for 0.
not_rounded_up(n) == IF n = 0 THEN 1 ELSE n

\* usize::next_power_of_two: the least power of two that is at least n.
next_power_of_two(n) == pow2(MinOf({e \in 0..30 : pow2(e) >= n}))

\* The while loop of State::max_hash counting the bits of next_power, the
\* set one included.
bit_scan_counting(next_power) == MinOf({e \in 1..30 : pow2(e) > next_power})

\* The while loop of State::max_hash: the first exponent whose bit is set.
bit_scan(next_power) == MinOf({e \in 0..30 : (next_power \div pow2(e)) % 2 = 1})

\* State::max_hash: u64::MAX >> exponent.
max_hash(self) == u64_MAX \div pow2(bit_scan(next_power_of_two(self.iterations)))

\* ---------------------------------------------------------------- the State

\* State::new with a prev_hash other than 0.
State_new_hashed(seed) ==
    [seed |-> seed, prev_hash |-> [val |-> 1, low |-> 0], iterations |-> 0,
     resources |-> Resources_default, citizens |-> Citizens_default,
     land |-> Land_default, log |-> <<>>, nonces |-> <<0>>]

\* State::new(seed) over impl Default for State.
State_new(seed) ==
    [seed |-> seed, prev_hash |-> ZeroHash, iterations |-> 0,
     resources |-> Resources_default, citizens |-> Citizens_default,
     land |-> Land_default, log |-> <<>>, nonces |-> <<0>>]

\* A panic of the program (an index out of range): no returned Err, the call
\* does not return.
Panic == Err(<<"panic">>)
IsPanic(outcome) == ~outcome.ok /\ outcome.err = <<"panic">>

\* Whether nonces[i] exists (a Vec is indexed from 0).
in_range(nonces, i) == i >= 0 /\ i < Len(nonces)

\* prev_iteration_nonce returning the nonce of genesis.
genesis_nonce(self) == self.nonces[1]

\* State::prev_iteration_nonce, where the index is in range.
prev_iteration_nonce(self) == self.nonces[self.iterations + 1]

\* compact pushing every entry, equal to the last one or not.
compact_pushing(entries, i, log) == log \o SubSeq(entries, i, Len(entries))

\* The log block of State::do_apply_action: the loop over
\* [self.log, vec!{(action, 1)}].concat().
RECURSIVE compact(_, _, _)
compact(entries, i, log) ==
    IF i > Len(entries) THEN log
    ELSE IF Len(log) > 0 /\ log[Len(log)][1] = entries[i][1]
         THEN compact(entries, i + 1, [log EXCEPT ![Len(log)][2] = @ + 1])
         ELSE compact(entries, i + 1, Append(log, entries[i]))

\* The struct of do_apply_action with the new entry put before the log.
next_state_newest_first(self, action, resources, citizens, land) ==
    [self EXCEPT
       !.prev_hash = hash_u64(self, prev_iteration_nonce(self)),
       !.iterations = self.iterations + 1,
       !.resources = resources,
       !.citizens = citizens,
       !.land = land,
       !.log = compact(<<<<action, 1>>>> \o self.log, 1, <<>>)]

\* The struct State::do_apply_action returns when no ? has returned.
next_state(self, action, resources, citizens, land) ==
    [self EXCEPT
       !.prev_hash = hash_u64(self, prev_iteration_nonce(self)),
       !.iterations = self.iterations + 1,
       !.resources = resources,
       !.citizens = citizens,
       !.land = land,
       !.log = compact(Append(self.log, <<action, 1>>), 1, <<>>)]

\* The ? on Land::apply_action going on with the ledger it was given where
\* Land::apply_action returned an error.
after_land_unchecked(self, action, resources, citizens, land) ==
    Ok(next_state(self, action, resources, citizens,
                  IF land.ok THEN land.val ELSE self.land))

\* The ? on Land::apply_action.
after_land(self, action, resources, citizens, land) ==
    IF land.ok THEN Ok(next_state(self, action, resources, citizens, land.val))
    ELSE land

\* The ? on Citizens::apply_action.
after_citizens(self, action, resources, citizens) ==
    IF citizens.ok
    THEN after_land(self, action, resources, citizens.val,
                    Land_apply_action(self.land, action))
    ELSE citizens

\* The ? on Resources::apply_action coming after the one on
\* Citizens::apply_action.
after_resources_last(self, action, resources) ==
    IF ~Citizens_apply_action(self.citizens, action).ok
    THEN Citizens_apply_action(self.citizens, action)
    ELSE IF resources.ok
    THEN after_citizens(self, action, resources.val,
                        Citizens_apply_action(self.citizens, action))
    ELSE resources

\* The ? on Resources::apply_action.
after_resources(self, action, resources) ==
    IF resources.ok
    THEN after_citizens(self, action, resources.val,
                        Citizens_apply_action(self.citizens, action))
    ELSE resources

\* The ? on Resources::work, and Resources::apply_action on what it returned.
work_and_apply(worked, action) ==
    IF worked.ok THEN Resources_apply_action(worked.val.r, action, worked.val.ctx)
    ELSE worked

\* do_apply_action with the work phase after the action, on the ledger the
\* action returned.
do_apply_action_acting_first(self, action) ==
    IF ~in_range(self.nonces, self.iterations) THEN Panic
    ELSE LET acted == Resources_apply_action(self.resources, action,
                                             get_context(self.seed, self.prev_hash))
         IN  after_resources(self, action,
                 IF acted.ok
                 THEN ledger_of(work(acted.val, get_context(self.seed, self.prev_hash)))
                 ELSE acted)

\* do_apply_action with the random source taken from the prev_hash of the
\* state it returns, the hash of the state it was called on.
do_apply_action_on_new_hash(self, action) ==
    IF ~in_range(self.nonces, self.iterations) THEN Panic
    ELSE after_resources(self, action,
             work_and_apply(work(self.resources,
                                 get_context(self.seed,
                                             hash_u64(self, prev_iteration_nonce(self)))),
                            action))

\* State::do_apply_action: each ? returns the first error, in the order
\* resources, citizens, land.
do_apply_action(self, action) ==
    IF ~in_range(self.nonces, self.iterations) THEN Panic
    ELSE after_resources(self, action,
             work_and_apply(work(self.resources,
                                 get_context(self.seed, self.prev_hash)),
                            action))

\* The while loop of State::calculate_nonce, u64_RANGE nonces at a stride:
\* the least nonce from the given one on whose hash is within the limit.
RECURSIVE nonce_from(_, _, _)
nonce_from(h, limit, nonce) ==
    LET found == {n \in nonce..(nonce + u64_MAX) :
                     finish(write_nonce(h, n)) % u64_RANGE <= limit}
    IN  IF found = {} THEN nonce_from(h, limit, nonce + u64_RANGE)
        ELSE MinOf(found)

\* calculate_nonce with the search started at 1.
calculate_nonce_from_1(self) == nonce_from(hasher(self), max_hash(self), 1)

\* State::calculate_nonce: the search from 0.
calculate_nonce(self) == nonce_from(hasher(self), max_hash(self), 0)

\* commit putting the nonce in front of the others.
commit_in_front(self) ==
    [self EXCEPT !.nonces = <<calculate_nonce(self)>> \o self.nonces]

\* State::commit.
commit(self) == [self EXCEPT !.nonces = Append(self.nonces, calculate_nonce(self))]

\* The ? and the commit of State::apply_action.
and_commit(next) == IF next.ok THEN Ok(commit(next.val)) ELSE next

\* State::apply_action.
apply_action(self, action) == and_commit(do_apply_action(self, action))

\* The loop `for _ in 0..times` of State::repeat, by halves: the
\* applications run in the same order and the first failure ends them.
\* repeat applying the action once, whatever the count.
repeat_once(outcome, times, action) ==
    IF outcome.ok /\ times > 0 THEN apply_action(outcome.val, action) ELSE outcome

RECURSIVE repeat_from(_, _, _)
repeat_from(outcome, times, action) ==
    IF outcome.ok
    THEN CASE times = 0 -> outcome
           [] times = 1 -> apply_action(outcome.val, action)
           [] OTHER -> repeat_from(repeat_from(outcome, times \div 2, action),
                                   times - times \div 2, action)
    ELSE outcome

\* State::repeat.
repeat(self, times, action) == repeat_from(Ok(self), times, action)

\* or_else numbering the iterations from 0.
or_else_from_0(next, iteration) ==
    IF next.ok \/ IsPanic(next) THEN next
    ELSE Err(<<"InvalidStateRecreation", iteration - 1, next.err>>)

\* The or_else of State::check on what do_apply_action returned.
or_else(next, iteration) ==
    IF next.ok \/ IsPanic(next) THEN next
    ELSE Err(<<"InvalidStateRecreation", iteration, next.err>>)

\* One pass of the inner loop of State::check.
replay_step(self, state, action) ==
    IF ~in_range(self.nonces, state.iterations) THEN Panic
    ELSE or_else(do_apply_action(state, action), state.iterations + 1)

\* The inner loop of State::check, `for _ in 0..log_entry.1`, by halves.
RECURSIVE replay_times(_, _, _, _)
replay_times(self, outcome, times, action) ==
    IF outcome.ok
    THEN CASE times = 0 -> outcome
           [] times = 1 -> replay_step(self, outcome.val, action)
           [] OTHER -> replay_times(self,
                                    replay_times(self, outcome, times \div 2, action),
                                    times - times \div 2, action)
    ELSE outcome

\* The outer loop of State::check, from log entry i on.
RECURSIVE replay(_, _, _)
replay(self, outcome, i) ==
    IF outcome.ok /\ i <= Len(self.log)
    THEN replay(self, replay_times(self, outcome, self.log[i][2], self.log[i][1]), i + 1)
    ELSE outcome

\* rebuild with the nonces left out of the initial state.
rebuild_from_default(self) == replay(self, Ok(State_new(self.seed)), 1)

\* rebuild from the genesis of seed 0, whatever the seed of the save.
rebuild_unseeded(self) ==
    replay(self, Ok([State_new(0) EXCEPT !.nonces = self.nonces]), 1)

\* The state State::check rebuilds: Ok carries it.
rebuild(self) ==
    replay(self, Ok([State_new(self.seed) EXCEPT !.nonces = self.nonces]), 1)

\* The comparison that ends State::check.
compare(self, rebuilt) ==
    IF ~rebuilt.ok THEN rebuilt
    ELSE IF ~in_range(self.nonces, self.iterations) THEN Panic
    ELSE IF ~in_range(rebuilt.val.nonces, rebuilt.val.iterations) THEN Panic
    ELSE IF hash(self, prev_iteration_nonce(self))
                = hash(rebuilt.val, prev_iteration_nonce(rebuilt.val))
    THEN Ok(<<>>)
    ELSE Err(<<"HashMismatch">>)

\* State::check.
check(self) == compare(self, rebuild(self))

\* ------------------------------------------------------------- the driver

\* state: the State the driver holds.  applied: the iterations it has applied
\* since Init.  land: a Land ledger on its own, for the steps of
\* Land::apply_action next to full land.  call: where a call of apply_action
\* followed step by step stands: <<"idle">> before it, <<"search", nonce>> in
\* the loop of calculate_nonce, <<"ok">>, <<"err">> or <<"panic">> after it.
VARIABLES state, applied, land, call

vars == <<state, applied, land, call>>

Seeds == 0..MaxSeed

\* after_call keeping, on Err, the resources as the work phase of the failed
\* call left them.
after_call_worked(self, outcome) ==
    IF outcome.ok THEN outcome.val
    ELSE [self EXCEPT
            !.resources =
                work(self.resources, get_context(self.seed, self.prev_hash)).val.r]

\* after_call counting, on Err, the failed call as an iteration.
after_call_counted(self, outcome) ==
    IF outcome.ok THEN outcome.val ELSE [self EXCEPT !.iterations = @ + 1]

\* after_call keeping, on Err, the prev_hash the failed call had taken.
after_call_rehashed(self, outcome) ==
    IF outcome.ok THEN outcome.val
    ELSE [self EXCEPT !.prev_hash = hash_u64(self, prev_iteration_nonce(self))]

\* What the driver holds after a call: the new State on Ok, the State it
\* had (original_state) on Err.
after_call(self, outcome) == IF outcome.ok THEN outcome.val ELSE self

\* A session: the calls repeat(times, action) of a script, in order, from
\* State::new(seed); session_after is the driver's match on what call i
\* returned.
RECURSIVE session(_, _, _), session_after(_, _, _, _)
session(self, script, i) ==
    IF i > Len(script) THEN self
    ELSE session_after(self, repeat(self, script[i][1], script[i][2]), script, i)

session_after(self, outcome, script, i) ==
    IF outcome.ok THEN session(outcome.val, script, i + 1)
    ELSE session(self, script, i + 1)

\* The sessions a behaviour may start after.  Camp gathers what a tent and a
\* citizen cost; the next three build the tent, recruit and assign a farmer.
\* Logging assigns a woodcutter instead.  Famine recruits with its last food;
\* Lumber gathers the wood of a barn or a stockpile.
Camp == << <<45, <<"Collect", "Food">> >>, <<22, <<"Collect", "Wood">> >> >>
Tented == Camp \o << <<1, <<"Build", "Tent">> >> >>
Settled == Tented \o << <<1, <<"RecruitCitizen">> >> >>
Farming == Settled \o << <<1, <<"AssignJob", "Farmer">> >> >>
Famine ==
    << <<20, <<"Collect", "Food">> >>, <<20, <<"Collect", "Wood">> >>,
       <<1, <<"Build", "WoodenHut">> >>, <<1, <<"RecruitCitizen">> >> >>
Lumber == << <<100, <<"Collect", "Wood">> >> >>
Logging == Settled \o << <<1, <<"AssignJob", "Woodcutter">> >> >>
\* Hungry recruits with 20 food to spare, which the citizen starts to eat;
\* Fed goes on with a farmer, up to 0.2 short of the food of a citizen.
Hungry ==
    << <<40, <<"Collect", "Food">> >>, <<20, <<"Collect", "Wood">> >>,
       <<1, <<"Build", "WoodenHut">> >>, <<1, <<"RecruitCitizen">> >> >>
Fed == Hungry \o << <<1, <<"AssignJob", "Farmer">> >>, <<4, <<"Idle">> >> >>

Openings ==
    {<<>>, Camp, Tented, Settled, Farming, Logging, Famine, Lumber, Hungry, Fed}

\* Sessions of several hundred iterations: a stockpile or a barn filled up,
\* the log of tests::farmer (main.rs:930-940), and the same with a miner or
\* a woodcutter.
Quarry ==
    Lumber \o << <<1, <<"Build", "WoodStockpile">> >>, <<200, <<"Collect", "Stone">> >> >>
StoneYard ==
    Lumber \o << <<1, <<"Build", "StoneStockpile">> >>, <<200, <<"Collect", "Stone">> >> >>
Granary ==
    Lumber \o << <<1, <<"Build", "Barn">> >>, <<200, <<"Collect", "Food">> >> >>
WoodYard ==
    Lumber \o << <<1, <<"Build", "WoodStockpile">> >>, <<200, <<"Collect", "Wood">> >> >>
Gathered ==
    << <<200, <<"Collect", "Food">> >>, <<200, <<"Collect", "Wood">> >>,
       <<200, <<"Collect", "Stone">> >> >>
Farmer ==
    Gathered \o << <<1, <<"Build", "WoodenHut">> >>, <<1, <<"RecruitCitizen">> >>,
                   <<1, <<"AssignJob", "Farmer">> >>, <<100, <<"Idle">> >> >>

Mining ==
    Gathered \o << <<1, <<"Build", "WoodenHut">> >>, <<1, <<"RecruitCitizen">> >>,
                   <<1, <<"AssignJob", "Miner">> >>, <<100, <<"Idle">> >> >>
Felling ==
    Gathered \o << <<1, <<"Build", "WoodenHut">> >>, <<1, <<"RecruitCitizen">> >>,
                   <<1, <<"AssignJob", "Woodcutter">> >>, <<100, <<"Idle">> >> >>

LongOpenings == {Quarry, StoneYard, Granary, WoodYard, Gathered, Farmer, Mining, Felling}

Init ==
    /\ state \in {session(State_new(seed), script, 1) :
                      seed \in Seeds, script \in Openings}
    /\ applied = 0
    /\ land = Land_default
    /\ call = <<"idle">>

InitLong ==
    /\ state \in {session(State_new(seed), script, 1) :
                      seed \in Seeds, script \in LongOpenings}
    /\ applied = 0
    /\ land = Land_default
    /\ call = <<"idle">>

\* A call that returned outcome after asking for the given iterations.
Call(outcome, times) ==
    /\ state' = after_call(state, outcome)
    /\ applied' = IF outcome.ok THEN applied + times ELSE applied
    /\ UNCHANGED <<land, call>>

\* One call of apply_action.
ApplyAction ==
    \E action \in Action :
        /\ applied < MaxApplied
        /\ Call(apply_action(state, action), 1)

\* One call of repeat.
Repeat ==
    \E times \in 0..(MaxApplied - applied), action \in Action :
        Call(repeat(state, times, action), times)

Next == ApplyAction \/ Repeat

Spec == Init /\ [][Next]_vars

SpecLong == InitLong /\ [][Next]_vars

\* Land ledgers with little or no free land: the buildings other than tents
\* at 0 or 1 each, the tents taking the rest.
LandInputs ==
    {[Land_default EXCEPT
        !.tents = Land_default.total_land - free - (h + b + w + s),
        !.wooden_huts = h, !.barns = b, !.wood_stockpiles = w,
        !.stone_stockpiles = s] :
        free \in 0..MaxFreeLand, h \in 0..1, b \in 0..1, w \in 0..1, s \in 0..1}

InitLand ==
    /\ state = State_new(0)
    /\ applied = 0
    /\ land \in LandInputs
    /\ call = <<"idle">>

\* One call of Land::apply_action, the ledger kept on Err.
LandApplyAction ==
    \E action \in Action :
        LET outcome == Land_apply_action(land, action)
        IN  /\ land' = IF outcome.ok THEN outcome.val ELSE land
            /\ UNCHANGED <<state, applied, call>>

NextLand == LandApplyAction

SpecLand == InitLand /\ [][NextLand]_vars

\* The program on a land of MaxLots lots: genesis with total_land lowered, so
\* that a session of a few Build leaves no free land where Land::default takes
\* a thousand of them.
on_lots(self, lots) == [self EXCEPT !.land.total_land = lots]

\* The sessions a behaviour of SpecLots may start after: those of Spec that
\* build, the wood of one and of two barns gathered, and one and two
\* buildings built with it, the second refused where the land is full.
LotOpenings ==
    {<<>>, Camp, Tented, Settled, Farming, Famine, SubSeq(Famine, 1, 3), Lumber,
     Lumber \o << <<1, <<"Build", "Barn">> >> >>,
     << <<200, <<"Collect", "Wood">> >> >>,
     << <<200, <<"Collect", "Wood">> >>, <<1, <<"Build", "WoodStockpile">> >> >>,
     << <<200, <<"Collect", "Wood">> >>, <<2, <<"Build", "Barn">> >> >>}

InitLots ==
    /\ state \in {session(on_lots(State_new(seed), MaxLots), script, 1) :
                      seed \in Seeds, script \in LotOpenings}
    /\ applied = 0
    /\ land = Land_default
    /\ call = <<"idle">>

SpecLots == InitLots /\ [][Next]_vars

\* The loop test of State::calculate_nonce failing at or above the ceiling.
passes_below(h, limit, nonce) == finish(write_nonce(h, nonce)) % u64_RANGE < limit

\* The loop test of State::calculate_nonce, negated: the nonce ends the loop.
\* h is the hasher of the state with all written but the nonce, limit its
\* max_hash.
passes(h, limit, nonce) == finish(write_nonce(h, nonce)) % u64_RANGE <= limit

\* A call of apply_action followed step by step, on the state a session left.
InitSearch ==
    /\ state \in {session(State_new(seed), script, 1) :
                      seed \in Seeds, script \in Openings}
    /\ applied = 0
    /\ land = Land_default
    /\ call = <<"idle">>

\* The call of do_apply_action: on Ok the call goes on to commit, with the
\* nonce at 0, the hasher and the max_hash of the state to commit; on Err it
\* returns.
Enter ==
    /\ call = <<"idle">>
    /\ \E action \in Action :
           LET next == do_apply_action(state, action)
           IN  /\ state' = IF next.ok THEN next.val ELSE state
               /\ call' = IF next.ok
                          THEN <<"search", 0, hasher(next.val), max_hash(next.val)>>
                          ELSE IF IsPanic(next) THEN <<"panic">> ELSE <<"err">>
    /\ UNCHANGED <<applied, land>>

\* One test of the loop of calculate_nonce: the nonce is passed on to commit,
\* which pushes it and returns, or raised by one.  The nonces tested are those
\* of two rounds of the hash values.
Loop ==
    /\ call[1] = "search"
    /\ IF passes(call[3], call[4], call[2])
       THEN /\ state' = [state EXCEPT !.nonces = Append(@, call[2])]
            /\ applied' = applied + 1
            /\ call' = <<"ok">>
       ELSE /\ call[2] < 2 * u64_RANGE
            /\ call' = [call EXCEPT ![2] = @ + 1]
            /\ UNCHANGED <<state, applied>>
    /\ UNCHANGED land

NextSearch == Enter \/ Loop

\* The loop runs on: a test that can be made is made.
SpecSearch == InitSearch /\ [][NextSearch]_vars /\ WF_vars(Loop)

\* One call of apply_action(Idle) after another, from genesis: the iteration
\* count passes every power of two up to MaxIdle.
InitIdle ==
    /\ state \in {State_new(seed) : seed \in Seeds}
    /\ applied = 0
    /\ land = Land_default
    /\ call = <<"idle">>

Idling ==
    /\ applied < MaxIdle
    /\ Call(apply_action(state, <<"Idle">>), 1)

NextIdle == Idling

SpecIdle == InitIdle /\ [][NextIdle]_vars

\* ------------------------------------------------------------- the claims

\* C1 (round trip): check() returns Ok on every state the driver holds, the
\* genesis state and every state produced by calls of apply_action and
\* repeat, failed calls discarded.
RoundTrip == check(state) = Ok(<<>>)

\* A state produced by a successful call after a session of more than 60
\* iterations, with a log of several entries, on which check() returns Ok.
RoundTripWitness ==
    /\ applied > 0
    /\ state.iterations > 60
    /\ Len(state.log) >= 3
    /\ check(state) = Ok(<<>>)

\* The three ledgers of a State.
ledgers(self) == <<self.resources, self.citizens, self.land>>

Tampered(self) ==
    {[self EXCEPT !.iterations = i] :
         i \in {self.iterations + 1} \cup ({self.iterations - 1} \cap Nat)}
        \cup {[self EXCEPT !.prev_hash.low = (@ + 1) % 256]}
        \cup {[self EXCEPT !.resources[f] = @ + 1 * Milli] : f \in DOMAIN self.resources}
        \cup {[self EXCEPT !.citizens[f] = @ + 1] : f \in DOMAIN self.citizens}
        \cup {[self EXCEPT !.land[f] = @ + 1] : f \in DOMAIN self.land}

\* C3 (tamper evidence): on every save obtained from a state the driver
\* holds by altering a ledger field, prev_hash or iterations, check()
\* returns HashMismatch.
TamperEvidence ==
    \A save \in Tampered(state) : check(save) = Err(<<"HashMismatch">>)

\* A second run: the actions of a log, count times each and oldest first,
\* applied as State::repeat applies them, from the outcome of the run so far.
RECURSIVE run_again(_, _, _)
run_again(log, outcome, i) ==
    IF outcome.ok /\ i <= Len(log)
    THEN run_again(log, repeat_from(outcome, log[i][2], log[i][1]), i + 1)
    ELSE outcome

WithinCapacity ==
    /\ state.resources.food <= state.resources.max_food
    /\ state.resources.wood <= state.resources.max_wood
    /\ state.resources.stone <= state.resources.max_stone

\* The fields of Resources that store an amount.
Amounts ==
    {"food", "wood", "stone", "skins", "herbs", "ore", "leather", "piety", "metal",
     "gold", "corpses"}

\* C6 (no negative amount): every stored resource amount is non-negative.
NonNegative == \A f \in Amounts : state.resources[f] >= 0

\* C7 (population): idle + farmers + woodcutters + miners is at most
\* max_population, and no citizen counter is negative.
PopulationWithinMax ==
    /\ state.citizens.idle + state.citizens.farmers + state.citizens.woodcutters
           + state.citizens.miners <= state.citizens.max_population
    /\ \A f \in DOMAIN state.citizens : state.citizens[f] >= 0

\* A state reached by a successful call with the population at its maximum,
\* a citizen in a job and none idle.
PopulationWithinMaxWitness ==
    /\ applied > 0
    /\ state.citizens.max_population > 0
    /\ count(state.citizens) = state.citizens.max_population
    /\ state.citizens.idle = 0
    /\ apply_action(state, <<"RecruitCitizen">>) = Err(<<"PopulationLimitReached">>)

\* C8 (land): the building counters add up to at most total_land, so that
\* the subtraction of free_land() does not underflow.
BuildingsWithinLand ==
    /\ land.tents + land.wooden_huts + land.barns + land.wood_stockpiles
           + land.stone_stockpiles <= land.total_land
    /\ free_land(land) >= 0

\* A Land ledger filled up by a Build, on which the next Build is refused.
BuildingsWithinLandWitness ==
    /\ land.wooden_huts = 2
    /\ land_use(land) = land.total_land
    /\ Land_apply_action(land, <<"Build", "Tent">>) = Err(<<"NotEnaughtFreeLand">>)

\* No two adjacent entries of a log carry the same action, and every count
\* is at least 1.
Compacted(log) ==
    \A i \in 1..Len(log) :
        /\ log[i][2] >= 1
        /\ i < Len(log) => log[i][1] # log[i + 1][1]

\* The log after an action is applied: the count of the last entry raised by
\* one when it carries that action, a new entry of count 1 otherwise.
Logged(log, action) ==
    IF Len(log) > 0 /\ log[Len(log)][1] = action
    THEN [log EXCEPT ![Len(log)] = <<action, log[Len(log)][2] + 1>>]
    ELSE Append(log, <<action, 1>>)

\* C9 (log compaction): the log of every state is compacted, and every
\* action that applies leaves the log that Logged describes.
LogCompaction ==
    /\ Compacted(state.log)
    /\ \A action \in Action :
           LET next == apply_action(state, action)
           IN  next.ok => next.val.log = Logged(state.log, action)

\* A state reached by a successful call whose last entry has a count above 1
\* and follows another entry, and on which a different action applies.
LogCompactionWitness ==
    /\ applied > 0
    /\ Len(state.log) >= 2
    /\ state.log[Len(state.log)][2] >= 2
    /\ \E action \in Action :
           /\ action # state.log[Len(state.log)][1]
           /\ apply_action(state, action).ok

\* C10 (commit): the last nonce of every state passes the ceiling of the
\* state's own iteration count, and in a committed state no smaller nonce
\* does.
LeastNonce ==
    LET nonce == state.nonces[state.iterations + 1]
    IN  /\ Len(state.nonces) = state.iterations + 1
        /\ hash_u64(state, nonce).val <= max_hash(state)
        /\ state.iterations > 0 =>
               \A n \in 0..(nonce - 1) : hash_u64(state, n).val > max_hash(state)

\* A state committed by a successful call under a ceiling below u64::MAX,
\* the search having gone past 0.
LeastNonceWitness ==
    /\ applied > 0
    /\ max_hash(state) < u64_MAX
    /\ state.nonces[state.iterations + 1] > 0

\* The ceiling at iteration count m, for the state at hand.
max_hash_at(self, m) == max_hash([self EXCEPT !.iterations = m])

\* C11 (monotonic difficulty): the ceiling of the iteration count reached is
\* at most the ceiling of every smaller count.
MonotonicDifficulty ==
    \A m \in 0..state.iterations : max_hash(state) <= max_hash_at(state, m)

\* A state just past a power of two, whose ceiling is below the one before.
MonotonicDifficultyWitness ==
    /\ state.iterations = 17
    /\ max_hash(state) < max_hash_at(state, 16)
    /\ max_hash(state) > 0

\* The save obtained from self by altering its last nonce, all else untouched.
Renonced(self) == {[self EXCEPT !.nonces[Len(self.nonces)] = @ + 1]}

\* C12 (replay through the full transition): the state check() rebuilds from
\* a save, the state the driver holds or that state with its last nonce
\* altered, is the one the full transition function, nonce search included,
\* yields from genesis for the actions of the log.
ReplayCommits ==
    \A save \in {state} \cup Renonced(state) :
        rebuild(save) = run_again(save.log, Ok(State_new(save.seed)), 1)

\* The save obtained from self by entering an action, once, in its log after
\* the first k entries.
Forged(self, k, action) ==
    [self EXCEPT !.log = SubSeq(self.log, 1, k) \o << <<action, 1>> >>
                             \o SubSeq(self.log, k + 1, Len(self.log))]

\* The state after the first k entries of the log of self: self after all
\* of them.
after_entries(self, k) ==
    IF k = Len(self.log) THEN Ok(self)
    ELSE run_again(SubSeq(self.log, 1, k), Ok(State_new(self.seed)), 1)

\* The actions entered in a forged log: one for each IterationError.
Probes ==
    {<<"RecruitCitizen">>, <<"Build", "Tent">>, <<"Build", "Barn">>,
     <<"AssignJob", "Miner">>, <<"DischargeJob", "Farmer">>}

\* What check() has to return on the save forged from self at k, given the
\* outcome of apply_action there: nothing is asked when the action applies.
recreation_error(before, failed) ==
    Err(<<"InvalidStateRecreation", before.iterations + 1, failed.err>>)

\* check() on the saves forged from self at k, before being the state there.
forged_fail(self, k, before) ==
    \A action \in Probes :
        apply_action(before, action).ok
            \/ check(Forged(self, k, action))
                   = recreation_error(before, apply_action(before, action))

\* C13 (errors of check): on a save whose log holds an action that fails
\* where it stands, before the first entry or after the last, check() returns InvalidStateRecreation with the 1-based number of the
\* failed iteration and the IterationError apply_action gives there; on a
\* save that replays to the end and differs in a ledger it returns
\* HashMismatch.
CheckErrors ==
    /\ \A k \in {0, Len(state.log)} :
           forged_fail(state, k, after_entries(state, k).val)
    /\ check([state EXCEPT !.resources.food = @ + 1 * Milli]) = Err(<<"HashMismatch">>)

\* A state past its first iterations on which an action entered after the log
\* fails at the iteration after the last, and entered before it at the first.
CheckErrorsWitness ==
    /\ state.iterations > 1
    /\ check(Forged(state, Len(state.log), <<"RecruitCitizen">>))
           = Err(<<"InvalidStateRecreation", state.iterations + 1,
                   <<"NotEnaughtResource", "Food">> >>)
    /\ check(Forged(state, 0, <<"AssignJob", "Miner">>))
           = Err(<<"InvalidStateRecreation", 1, <<"NotEnaughtIdleWorkers">> >>)

\* times successive calls of apply_action, one after the other, each on the
\* state the call before returned and none after a call that failed;
\* and_then is the rest of them after the first returned.
RECURSIVE successive(_, _, _), and_then(_, _, _)
successive(self, times, action) ==
    IF times = 0 THEN Ok(self)
    ELSE and_then(apply_action(self, action), times - 1, action)

and_then(first, times, action) ==
    IF first.ok THEN successive(first.val, times, action) ELSE first

\* What repeat(times, action) returned on self, against the successive calls.
folds(self, times, action, repeated) ==
    /\ repeated = successive(self, times, action)
    /\ repeated.ok => repeated.val.iterations = self.iterations + times

\* C14 (repeat folds apply_action): repeat(times, action) returns what times
\* successive calls of apply_action return, the error of the first call that
\* fails included; on Ok the iterations grew by times, and repeat(0, action)
\* returns the state it was given.
RepeatFolds ==
    \A action \in Action :
        /\ repeat(state, 0, action) = Ok(state)
        /\ \A times \in 1..MaxTimes :
               folds(state, times, action, repeat(state, times, action))

\* A state where a first RecruitCitizen applies and the second fails, and
\* where two Idle apply.
RepeatFoldsWitness ==
    /\ apply_action(state, <<"RecruitCitizen">>).ok
    /\ repeat(state, 2, <<"RecruitCitizen">>) = Err(<<"PopulationLimitReached">>)
    /\ repeat(state, 2, <<"Idle">>).ok

\* The Resources ledger after the work phase of an iteration on self.
worked(self) == work(self.resources, get_context(self.seed, self.prev_hash)).val.r

\* The statement of C15 as it stands: where the citizens number
\* max_population, apply_action(RecruitCitizen) fails with
\* PopulationLimitReached and the Citizens ledger stays as it was.
RecruitAtLimitAlways ==
    count(state.citizens) = state.citizens.max_population =>
        /\ apply_action(state, <<"RecruitCitizen">>) = Err(<<"PopulationLimitReached">>)
        /\ after_call(state, apply_action(state, <<"RecruitCitizen">>)).citizens
               = state.citizens

\* C15 (recruiting at the limit), as the code has it: where the citizens
\* number max_population, apply_action(RecruitCitizen) fails and the Citizens
\* ledger stays as it was; the error is PopulationLimitReached where the food
\* left by the work phase pays the 20 a citizen costs, and
\* NotEnaughtResource(Food) where it does not.
RecruitAtLimit ==
    count(state.citizens) = state.citizens.max_population =>
        /\ apply_action(state, <<"RecruitCitizen">>)
               = IF worked(state).food >= 20 * Milli
                 THEN Err(<<"PopulationLimitReached">>)
                 ELSE Err(<<"NotEnaughtResource", "Food">>)
        /\ after_call(state, apply_action(state, <<"RecruitCitizen">>)).citizens
               = state.citizens

\* A state with an idle citizen, the population at its maximum and the food
\* of one more citizen, where RecruitCitizen is refused for the population.
RecruitAtLimitWitness ==
    /\ state.citizens.idle > 0
    /\ count(state.citizens) = state.citizens.max_population
    /\ worked(state).food >= 20 * Milli
    /\ apply_action(state, <<"RecruitCitizen">>) = Err(<<"PopulationLimitReached">>)

\* The counter of Citizens that counts the citizens in a job.
job_counter(job) ==
    CASE job = "Farmer" -> "farmers"
      [] job = "Woodcutter" -> "woodcutters"
      [] job = "Miner" -> "miners"

\* What apply_action(AssignJob(job)) returned on self, against the idle
\* citizens self has.
assigned(self, job, outcome) ==
    IF self.citizens.idle = 0
    THEN /\ outcome = Err(<<"NotEnaughtIdleWorkers">>)
         /\ after_call(self, outcome).citizens = self.citizens
    ELSE /\ outcome.ok
         /\ outcome.val.citizens
                = [self.citizens EXCEPT !.idle = @ - 1, ![job_counter(job)] = @ + 1]

\* C16 (AssignJob): with no idle citizen apply_action(AssignJob(job)) fails
\* with NotEnaughtIdleWorkers and the citizen counters stay as they were;
\* with an idle citizen it succeeds, takes one from idle, adds one to the
\* counter of the job and leaves the other counters and max_population.
AssignJobMoves ==
    \A job \in Job : assigned(state, job, apply_action(state, <<"AssignJob", job>>))

\* A state reached by assigning the only idle citizen to the farmers, where
\* a further AssignJob is refused.
AssignJobMovesWitness ==
    /\ applied > 0
    /\ state.citizens.farmers = 1
    /\ state.citizens.idle = 0
    /\ apply_action(state, <<"AssignJob", "Miner">>) = Err(<<"NotEnaughtIdleWorkers">>)

\* What apply_action(Build(building)) returns on a state without free land,
\* paid being what paying the costs of the building returned: the error of
\* the cost that was not covered, if there is one.
refusal(paid) == IF paid.ok THEN Err(<<"NotEnaughtFreeLand">>) ELSE paid

\* The statement of C17 as it stands: without free land, apply_action of
\* every Build fails with NotEnaughtFreeLand.
BuildOnFullLandAlways ==
    free_land(state.land) = 0 =>
        \A building \in Buildings :
            apply_action(state, <<"Build", building>>) = Err(<<"NotEnaughtFreeLand">>)

\* C17 (building without free land), as the code has it: without free land
\* apply_action of every Build fails; with NotEnaughtFreeLand where the
\* resources left by the work phase cover the cost table of the building, and
\* with NotEnaughtResource of the first cost they do not cover otherwise.
BuildOnFullLand ==
    free_land(state.land) = 0 =>
        \A building \in Buildings :
            apply_action(state, <<"Build", building>>)
                = refusal(pay_costs(Ok(worked(state)), costs(building), 1))

\* A state the last free lot of which was built on, with the wood of a barn
\* and no skins: a barn is refused for the land, a tent for the skins.
BuildOnFullLandWitness ==
    /\ free_land(state.land) = 0
    /\ land_use(state.land) > 0
    /\ apply_action(state, <<"Build", "Barn">>) = Err(<<"NotEnaughtFreeLand">>)
    /\ apply_action(state, <<"Build", "Tent">>) = Err(<<"NotEnaughtResource", "Skins">>)

\* What apply_action(DischargeJob(job)) returned on self, against the
\* citizens self has in the job.
discharged(self, job, outcome) ==
    IF self.citizens[job_counter(job)] = 0
    THEN outcome = Err(<<"NoWorkersInJob", job>>)
    ELSE /\ outcome.ok
         /\ outcome.val.citizens
                = [self.citizens EXCEPT !.idle = @ + 1, ![job_counter(job)] = @ - 1]

\* C18 (DischargeJob): apply_action(DischargeJob(job)) fails, with
\* NoWorkersInJob of that job, exactly where the counter of the job is 0;
\* elsewhere it succeeds, takes one from that counter, adds one to idle and
\* leaves the other counters and max_population.
DischargeJobMoves ==
    \A job \in Job :
        discharged(state, job, apply_action(state, <<"DischargeJob", job>>))

\* A state reached by discharging the only farmer, where a further discharge
\* of a farmer is refused.
DischargeJobMovesWitness ==
    /\ applied > 0
    /\ state.log[Len(state.log)][1] = <<"DischargeJob", "Farmer">>
    /\ state.citizens.idle = 1
    /\ apply_action(state, <<"DischargeJob", "Farmer">>)
           = Err(<<"NoWorkersInJob", "Farmer">>)

\* The field of Resources that stores the capacity of a primary resource.
capacity_field(primary_resource) ==
    CASE primary_resource = "Food" -> "max_food"
      [] primary_resource = "Wood" -> "max_wood"
      [] primary_resource = "Stone" -> "max_stone"

\* C19 (capacity clamp): Collect of a primary resource leaves, of that
\* resource, the lesser of the amount the work phase left plus 1 and the
\* capacity of that same resource.
ClampAtOwnCapacity ==
    \A r \in PrimaryResource :
        /\ apply_action(state, <<"Collect", r>>).ok
        /\ apply_action(state, <<"Collect", r>>).val.resources[amount_field(r)]
               = f64_min(worked(state)[amount_field(r)] + 1 * Milli,
                         worked(state)[capacity_field(r)])

\* What apply_action returned on self, against the hash of self taken with
\* the nonce self was committed with, the last of its nonces.
chained(self, outcome) ==
    outcome.ok =>
        /\ outcome.val.prev_hash = hash_u64(self, self.nonces[self.iterations + 1])
        /\ self.iterations + 1 = Len(self.nonces)

\* C20 (hash chain): the state a successful apply_action returns has, as
\* prev_hash, the hash of the state it was called on taken with the nonce
\* that state was committed with.
HashChain ==
    \A action \in Action : chained(state, apply_action(state, action))

\* A state reached by a successful call and committed with a nonce other than
\* 0, whose successor carries the hash taken with that nonce and not the one
\* taken with the nonce of genesis.
HashChainWitness ==
    /\ applied > 0
    /\ state.nonces[state.iterations + 1] > 0
    /\ apply_action(state, <<"Idle">>).ok
    /\ apply_action(state, <<"Idle">>).val.prev_hash
           = hash_u64(state, state.nonces[state.iterations + 1])
    /\ apply_action(state, <<"Idle">>).val.prev_hash
           # hash_u64(state, state.nonces[1])

\* C21 (one nonce per iteration): the nonces are iterations + 1 in number,
\* and a successful apply_action returns them with one more at the end, those
\* it was given unaltered.
NoncePerIteration ==
    /\ Len(state.nonces) = state.iterations + 1
    /\ \A action \in Action :
           LET outcome == apply_action(state, action)
           IN  outcome.ok =>
                   /\ Len(outcome.val.nonces) = Len(state.nonces) + 1
                   /\ SubSeq(outcome.val.nonces, 1, Len(state.nonces)) = state.nonces

\* A state reached by a successful call whose nonces are not all the same,
\* the last one the nonce of its own commit.
NoncePerIterationWitness ==
    /\ applied > 0
    /\ Len(state.nonces) = state.iterations + 1
    /\ state.nonces[Len(state.nonces)] # state.nonces[1]
    /\ state.nonces[Len(state.nonces)] = calculate_nonce(state)

\* C22 (the seed is kept): the state a successful apply_action returns has
\* the seed of the state it was called on, and the state check() rebuilds
\* has the seed of the state checked.
SeedKept ==
    /\ \A action \in Action :
           LET outcome == apply_action(state, action)
           IN  outcome.ok => outcome.val.seed = state.seed
    /\ LET rebuilt == rebuild(state)
       IN  rebuilt.ok /\ rebuilt.val.seed = state.seed

\* A state of a seed other than 0, reached by a successful call after some
\* iterations, that check() rebuilds with its seed.
SeedKeptWitness ==
    /\ applied > 0
    /\ state.iterations > 1
    /\ state.seed # 0
    /\ rebuild(state).val.seed = state.seed

\* C23 (iterations count the committed transitions): the counts of the log add
\* up to the iterations; a successful apply_action returns one iteration, one
\* logged action and one nonce more, a failed one leaves the driver with the
\* iterations, the log, the prev_hash and the nonces it had; the iterations
\* never go down.
CommittedOnly ==
    /\ Sum([i \in 1..Len(state.log) |-> state.log[i][2]]) = state.iterations
    /\ \A action \in Action :
           LET outcome == apply_action(state, action)
               held == after_call(state, outcome)
           IN  /\ held.iterations >= state.iterations
               /\ IF outcome.ok
                  THEN /\ held.iterations = state.iterations + 1
                       /\ held.log = Logged(state.log, action)
                       /\ Len(held.nonces) = Len(state.nonces) + 1
                  ELSE /\ held.iterations = state.iterations
                       /\ held.log = state.log
                       /\ held.prev_hash = state.prev_hash
                       /\ held.nonces = state.nonces

\* A state reached by a successful call, past its first iterations, on which
\* one action applies and another fails after the work phase and the hash
\* were taken.
CommittedOnlyWitness ==
    /\ applied > 0
    /\ state.iterations > 1
    /\ apply_action(state, <<"Idle">>).val.iterations = state.iterations + 1
    /\ ~apply_action(state, <<"Build", "Barn">>).ok
    /\ hash_u64(state, prev_iteration_nonce(state)) # state.prev_hash

\* C24 (genesis): the state no iteration was applied to has iterations 0,
\* prev_hash 0, an empty log, one nonce, every amount and every rate 0, every
\* multiplier 1, every primary capacity 200, every citizen counter and
\* max_population 0, every building counter 0 and a positive total_land.
Genesis ==
    applied = 0 =>
        /\ state.iterations = 0
        /\ state.prev_hash = [val |-> 0, low |-> 0]
        /\ state.log = <<>>
        /\ Len(state.nonces) = 1
        /\ \A f \in Amounts : state.resources[f] = 0
        /\ \A f \in {"food_cons_rate", "food_prod_rate", "wood_prod_rate",
                     "stone_prod_rate"} : state.resources[f] = 0
        /\ \A f \in {"food_prod_rate_multiplier", "wood_prod_rate_multiplier",
                     "stone_prod_rate_multiplier"} : state.resources[f] = 1 * Milli
        /\ \A f \in {"max_food", "max_wood", "max_stone"} :
               state.resources[f] = 200 * Milli
        /\ \A f \in DOMAIN state.citizens : state.citizens[f] = 0
        /\ \A f \in DOMAIN state.land \ {"total_land"} : state.land[f] = 0
        /\ state.land.total_land > 0

\* The genesis of a seed other than 0.
GenesisWitness ==
    /\ applied = 0
    /\ state.seed # 0
    /\ state = State_new(state.seed)

WorkFirst ==
    \A action \in Action :
        LET outcome == apply_action(state, action)
            w == work(state.resources, get_context(state.seed, state.prev_hash)).val
            acted == Resources_apply_action(w.r, action, w.ctx)
        IN  /\ outcome.ok => acted.ok /\ outcome.val.resources = acted.val
            /\ ~acted.ok => outcome = acted

\* A state with a farmer whose food does not pay a citizen before the work
\* phase and pays it after: RecruitCitizen applies.
WorkFirstWitness ==
    /\ state.citizens.farmers > 0
    /\ ~decrease(state.resources, "Food", 20 * Milli).ok
    /\ worked(state).food > state.resources.food
    /\ apply_action(state, <<"RecruitCitizen">>).ok

\* The amount of a primary resource after a work phase on the ledger r, as
\* C27 has it: the amount and the production, less the consumption, at most
\* the capacity of that resource.
grown(r, resource, rate, multiplier, consumption) ==
    f64_min(r[amount_field(resource)] + (rate * multiplier) \div Milli - consumption,
            r[capacity_field(resource)])

\* C27 (Idle works only): apply_action(Idle) leaves each primary amount as the
\* work phase alone makes it, clamped at the capacity of that resource, each
\* linked secondary amount not lowered, and every rate, multiplier, capacity,
\* tertiary and special amount, the Citizens and the Land as they were.
IdleWorksOnly ==
    LET outcome == apply_action(state, <<"Idle">>)
        r == state.resources
    IN  /\ outcome.ok
        /\ outcome.val.resources.food
               = grown(r, "Food", r.food_prod_rate, r.food_prod_rate_multiplier,
                       r.food_cons_rate)
        /\ outcome.val.resources.wood
               = grown(r, "Wood", r.wood_prod_rate, r.wood_prod_rate_multiplier, 0)
        /\ outcome.val.resources.stone
               = grown(r, "Stone", r.stone_prod_rate, r.stone_prod_rate_multiplier, 0)
        /\ \A f \in {"skins", "herbs", "ore"} : outcome.val.resources[f] >= r[f]
        /\ \A f \in DOMAIN r \ {"food", "wood", "stone", "skins", "herbs", "ore"} :
               outcome.val.resources[f] = r[f]
        /\ outcome.val.citizens = state.citizens
        /\ outcome.val.land = state.land

\* C28 (RecruitCitizen): apply_action(RecruitCitizen) succeeds exactly where
\* the food the work phase left is at least 20 and the citizens are fewer than
\* max_population; it then takes 20 from that food, adds 1 to the consumption
\* of food and 1 to idle, and leaves the other fields of Resources and of
\* Citizens, and the Land, as the work phase left them.
Recruited ==
    LET outcome == apply_action(state, <<"RecruitCitizen">>)
        w == worked(state)
    IN  /\ outcome.ok <=> /\ w.food >= 20 * Milli
                          /\ count(state.citizens) < state.citizens.max_population
        /\ outcome.ok =>
               /\ outcome.val.resources
                      = [w EXCEPT !.food = @ - 20 * Milli, !.food_cons_rate = @ + 1 * Milli]
               /\ outcome.val.citizens = [state.citizens EXCEPT !.idle = @ + 1]
               /\ outcome.val.land = state.land

\* A state reached by a RecruitCitizen that applied, the first of the session.
RecruitedWitness ==
    /\ applied > 0
    /\ state.log[Len(state.log)] = <<<<"RecruitCitizen">>, 1>>
    /\ state.resources.food_cons_rate = 1 * Milli
    /\ state.citizens.idle = 1

\* C29 (Build): a Build that applies takes the costs of the building from the
\* amounts the work phase left (Tent 2 wood and 2 skins, WoodenHut 20 wood and
\* 1 skins, the others 100 wood), raises the capacity the building stores for
\* by 100 (Barn food, WoodStockpile wood, StoneStockpile stone), adds 1 to the
\* counter of the building and its bonus to max_population (Tent 1, WoodenHut
\* 3); a Build that fails leaves the driver with the ledgers it had.
Built ==
    LET w == worked(state)
        paid(building) ==
            CASE building = "Tent" ->
                   [w EXCEPT !.wood = @ - 2 * Milli, !.skins = @ - 2 * Milli]
              [] building = "WoodenHut" ->
                   [w EXCEPT !.wood = @ - 20 * Milli, !.skins = @ - 1 * Milli]
              [] building = "Barn" ->
                   [w EXCEPT !.wood = @ - 100 * Milli, !.max_food = @ + 100 * Milli]
              [] building = "WoodStockpile" ->
                   [w EXCEPT !.wood = @ - 100 * Milli, !.max_wood = @ + 100 * Milli]
              [] building = "StoneStockpile" ->
                   [w EXCEPT !.wood = @ - 100 * Milli, !.max_stone = @ + 100 * Milli]
        counted(building) ==
            CASE building = "Tent" -> [state.land EXCEPT !.tents = @ + 1]
              [] building = "WoodenHut" -> [state.land EXCEPT !.wooden_huts = @ + 1]
              [] building = "Barn" -> [state.land EXCEPT !.barns = @ + 1]
              [] building = "WoodStockpile" ->
                   [state.land EXCEPT !.wood_stockpiles = @ + 1]
              [] building = "StoneStockpile" ->
                   [state.land EXCEPT !.stone_stockpiles = @ + 1]
        bonus(building) ==
            CASE building = "Tent" -> 1 [] building = "WoodenHut" -> 3 [] OTHER -> 0
    IN  \A building \in Buildings :
            LET outcome == apply_action(state, <<"Build", building>>)
            IN  IF outcome.ok
                THEN /\ outcome.val.resources = paid(building)
                     /\ outcome.val.land = counted(building)
                     /\ outcome.val.citizens
                            = [state.citizens EXCEPT
                                 !.max_population = @ + bonus(building)]
                ELSE ledgers(after_call(state, outcome)) = ledgers(state)

\* A state with a building on which a hut and a tent can be built and a barn,
\* for its wood, cannot.
BuiltWitness ==
    /\ apply_action(state, <<"Build", "WoodenHut">>).ok
    /\ apply_action(state, <<"Build", "Tent">>).ok
    /\ ~apply_action(state, <<"Build", "Barn">>).ok
    /\ state.citizens.max_population > 0

\* C30 (error precedence): apply_action fails exactly where one of the three
\* ledgers refuses the action, with the error of the first that does in the
\* order Resources (on the ledger the work phase left), Citizens, Land; and a
\* tent that neither its wood nor its skins are there for is refused for the
\* wood, the first of its costs.
FirstError ==
    /\ \A action \in Action :
           LET outcome == apply_action(state, action)
               w == work(state.resources, get_context(state.seed, state.prev_hash)).val
               resources == Resources_apply_action(w.r, action, w.ctx)
               citizens == Citizens_apply_action(state.citizens, action)
               lots == Land_apply_action(state.land, action)
           IN  IF ~resources.ok THEN outcome = resources
               ELSE IF ~citizens.ok THEN outcome = citizens
               ELSE IF ~lots.ok THEN outcome = lots
               ELSE outcome.ok
    /\ worked(state).wood < 2 * Milli /\ worked(state).skins < 2 * Milli =>
           apply_action(state, <<"Build", "Tent">>) = Err(<<"NotEnaughtResource", "Wood">>)

\* A state past genesis without free land, wood, skins, food or room for a
\* citizen: a barn and a tent are refused for the wood, not for the land, and
\* a citizen for the food, not for the population.
FirstErrorWitness ==
    /\ state.iterations > 0
    /\ free_land(state.land) = 0
    /\ count(state.citizens) = state.citizens.max_population
    /\ worked(state).skins < 2 * Milli
    /\ apply_action(state, <<"Build", "Barn">>) = Err(<<"NotEnaughtResource", "Wood">>)
    /\ apply_action(state, <<"Build", "Tent">>) = Err(<<"NotEnaughtResource", "Wood">>)
    /\ apply_action(state, <<"RecruitCitizen">>) = Err(<<"NotEnaughtResource", "Food">>)

\* C31 (byproduct bounds): an increase of a primary resource by amount a, from
\* any place of the random source, adds to the linked secondary resource a
\* whole number between 0 and floor(a), 0 when a is below 1, and leaves every
\* other secondary and tertiary amount as it was, whether or not the primary
\* amount is at its capacity; the actions other than Collect give the same
\* ledger whatever the random source.
ByproductBounds ==
    LET r == state.resources
        context == get_context(state.seed, state.prev_hash)
        linked(primary) == amount_field(get_secondary_resource(primary))
        floor(amount) == IF amount < 1 * Milli THEN 0 ELSE amount \div Milli
    IN  /\ \A primary \in PrimaryResource, pos \in 0..2,
              amount \in {-1 * Milli, Milli \div 2, 1 * Milli, 24 * (Milli \div 10),
                          3 * Milli} :
               LET after == increase(r, primary, amount,
                                     [context EXCEPT !.pos = pos]).val.r
               IN  /\ after[linked(primary)] - r[linked(primary)]
                          \in {n * Milli : n \in 0..floor(amount)}
                   /\ \A other \in {"skins", "herbs", "ore", "leather", "piety",
                                    "metal", "gold", "corpses"} \ {linked(primary)} :
                          after[other] = r[other]
        /\ \A action \in Action :
               action[1] # "Collect" =>
                   Resources_apply_action(r, action, context)
                       = Resources_apply_action(
                             r, action, [key |-> (context.key + 1) % 65536, pos |-> 1])

\* A state with the wood at its capacity, where collecting one more wood
\* leaves the wood as it is and adds a herb.
ByproductBoundsWitness ==
    LET r == state.resources
        after == increase(r, "Wood", 1 * Milli,
                          get_context(state.seed, state.prev_hash)).val.r
    IN  /\ state.iterations > 0
        /\ r.wood = r.max_wood
        /\ after.wood = r.wood
        /\ after.herbs = r.herbs + 1 * Milli

\* C32 (decrease): on the ledger of every state, decrease(resource, amount)
\* returns NotEnaughtResource of the resource asked for exactly when the
\* amount held, cut to a whole number, less the amount asked, cut to a whole
\* number, is below 0; otherwise it returns the ledger with that one amount
\* lowered by the amount asked and nothing else changed.  For the whole
\* amounts of the catalog (the costs of the buildings and the food of a
\* citizen) an amount held that is not negative is not negative afterwards.
DecreaseTest ==
    LET r == state.resources
        trunc(x) == IF x >= 0 THEN x \div Milli ELSE -((-x) \div Milli)
        entries(building) == {costs(building)[i] : i \in 1..Len(costs(building))}
        catalog == UNION {entries(building) : building \in Buildings}
                       \cup {<<"Food", 20 * Milli>>}
    IN  /\ \A resource \in {"Food", "Wood", "Stone", "Skins", "Herbs", "Ore",
                            "Leather", "Piety", "Metal", "Gold", "Corpses"} :
               LET current == r[amount_field(resource)]
               IN  \A amount \in {a \in {0, 1 * Milli, 20 * Milli,
                                         current - Milli \div 2, current,
                                         current + Milli \div 2,
                                         current + 1 * Milli} : a >= 0} :
                       LET outcome == decrease(r, resource, amount)
                       IN  IF trunc(current) - trunc(amount) < 0
                           THEN outcome = Err(<<"NotEnaughtResource", resource>>)
                           ELSE /\ outcome.ok
                                /\ outcome.val
                                       = [r EXCEPT ![amount_field(resource)]
                                                       = current - amount]
        /\ \A cost \in catalog :
               /\ cost[2] % Milli = 0
               /\ decrease(r, cost[1], cost[2]).ok /\ r[amount_field(cost[1])] >= 0
                      => decrease(r, cost[1], cost[2]).val[amount_field(cost[1])] >= 0

\* A state past genesis with the wood of a tent and not its skins: the wood
\* is taken, the skins are refused by name, and half a wood more than is
\* held is taken too, leaving the wood below 0.
DecreaseTestWitness ==
    LET r == state.resources
    IN  /\ state.iterations > 0
        /\ decrease(r, "Wood", 2 * Milli) = Ok([r EXCEPT !.wood = r.wood - 2 * Milli])
        /\ decrease(r, "Skins", 2 * Milli) = Err(<<"NotEnaughtResource", "Skins">>)
        /\ decrease(r, "Wood", r.wood + Milli \div 2).ok
        /\ decrease(r, "Wood", r.wood + Milli \div 2).val.wood < 0

\* C33 (random source): a state and another one with the same seed, the same
\* prev_hash and the same rates, and with other iterations, log, nonces,
\* citizens, land and amounts, gain the same skins, herbs and ore in a
\* transition on the same action.
SameSource ==
    LET twin == [state EXCEPT
                    !.iterations = 0, !.log = <<>>,
                    !.nonces = [i \in 1..Len(@) |-> @[i] + 1],
                    !.citizens.idle = @ + 1, !.land.tents = @ + 1,
                    !.resources.food = 1 * Milli, !.resources.wood = 1 * Milli,
                    !.resources.stone = 1 * Milli, !.resources.skins = @ + 1 * Milli,
                    !.resources.max_food = @ + 1 * Milli]
        gains(self, action) ==
            [field \in {"skins", "herbs", "ore"} |->
                do_apply_action(self, action).val.resources[field]
                    - self.resources[field]]
    IN  \A action \in {<<"Idle">>} \cup {<<"Collect", r>> : r \in PrimaryResource} :
            /\ do_apply_action(state, action).ok
            /\ do_apply_action(twin, action).ok
            /\ gains(state, action) = gains(twin, action)

\* A state past genesis that produces food and gains a skin in a transition
\* that collects food.
SameSourceWitness ==
    /\ state.iterations > 0
    /\ state.resources.food_prod_rate > 0
    /\ do_apply_action(state, <<"Collect", "Food">>).ok
    /\ do_apply_action(state, <<"Collect", "Food">>).val.resources.skins
           > state.resources.skins

\* C34 (hash ceiling): at the iteration count of the state, and at every
\* count next to a power of two up to 2^12, max_hash is u64::MAX for the
\* counts 0 and 1 and u64::MAX >> k for a count above 2^(k-1) and up to 2^k,
\* so that it halves as the count passes a power of two; the loop that finds
\* the exponent ends at k.
HashCeiling ==
    LET shifted(k) == u64_MAX \div (2 ^ k)
        counts == {state.iterations}
                      \cup UNION {{2 ^ j - 1, 2 ^ j, 2 ^ j + 1} : j \in 0..12}
    IN  \A n \in counts :
            /\ n <= 1 => max_hash_at(state, n) = u64_MAX
            /\ \A k \in 1..13 :
                   2 ^ (k - 1) < n /\ n <= 2 ^ k =>
                       /\ max_hash_at(state, n) = shifted(k)
                       /\ bit_scan(next_power_of_two(n)) = k
                       /\ max_hash_at(state, 2 ^ k + 1) = shifted(k) \div 2

\* A state reached by transitions at a count just past 4: its ceiling is
\* u64::MAX >> 3, half the one of the count before, which is above 0.
HashCeilingWitness ==
    /\ state.iterations = 5
    /\ applied = 5
    /\ max_hash(state) = u64_MAX \div 8
    /\ max_hash_at(state, 4) = u64_MAX \div 4
    /\ max_hash(state) > 0

\* C35 (log expansion): the log of genesis is empty; in every state the
\* counts of the log add up to iterations; and every transition that
\* succeeds leaves a log whose expansion, each entry repeated count times,
\* oldest first, is the expansion of the log before it followed by the action
\* applied: the expansion is the sequence of the actions applied, in order.
LogExpansion ==
    LET total(log, k) == Sum([i \in 1..k |-> log[i][2]])
        expand(log) ==
            [n \in 1..total(log, Len(log)) |->
                log[CHOOSE j \in 1..Len(log) :
                        total(log, j - 1) < n /\ n <= total(log, j)][1]]
    IN  /\ state.iterations = 0 => state.log = <<>>
        /\ total(state.log, Len(state.log)) = state.iterations
        /\ \A j \in 1..Len(state.log) : state.log[j][2] >= 1
        /\ \A action \in Action :
               LET outcome == apply_action(state, action)
               IN  outcome.ok =>
                       expand(outcome.val.log) = Append(expand(state.log), action)

\* A state reached by a call, with a log of several entries, the oldest of a
\* count above 1, on which a transition that repeats the last action and one
\* that does not both succeed.
LogExpansionWitness ==
    /\ applied > 0
    /\ Len(state.log) >= 3
    /\ state.log[1][2] > 1
    /\ apply_action(state, state.log[Len(state.log)][1]).ok
    /\ state.log[Len(state.log)][1] # <<"Idle">>
    /\ apply_action(state, <<"Idle">>).ok

\* C36 (production rates): in every state the rate of production of food is
\* 1.2 times the farmers, that of wood 0.5 times the woodcutters and that of
\* stone 0.2 times the miners; none is below 0.
RatesFollowJobs ==
    LET r == state.resources
        c == state.citizens
    IN  /\ r.food_prod_rate = c.farmers * (12 * (Milli \div 10))
        /\ r.wood_prod_rate = c.woodcutters * (5 * (Milli \div 10))
        /\ r.stone_prod_rate = c.miners * (2 * (Milli \div 10))
        /\ r.food_prod_rate >= 0 /\ r.wood_prod_rate >= 0 /\ r.stone_prod_rate >= 0

\* A state reached by a call that discharged the only miner: the stone is
\* produced at the rate 0 again, and a miner can be assigned anew.
RatesFollowJobsWitness ==
    /\ applied > 0
    /\ state.log[Len(state.log)][1] = <<"DischargeJob", "Miner">>
    /\ state.citizens.miners = 0
    /\ state.resources.stone_prod_rate = 0
    /\ apply_action(state, <<"AssignJob", "Miner">>).ok
    /\ apply_action(state, <<"AssignJob", "Miner">>).val.resources.stone_prod_rate
           = 2 * (Milli \div 10)

\* C37 (food consumption): in every state the rate of consumption of food is
\* the number of citizens, idle and at work; a transition that succeeds
\* raises it by 1 when it recruits a citizen and leaves it as it is
\* otherwise, and never lowers the number of citizens.
ConsumptionCountsCitizens ==
    LET heads(self) ==
            self.citizens.idle + self.citizens.farmers
                + self.citizens.woodcutters + self.citizens.miners
    IN  /\ state.resources.food_cons_rate = heads(state) * Milli
        /\ \A action \in Action :
               LET outcome == apply_action(state, action)
               IN  outcome.ok =>
                       /\ outcome.val.resources.food_cons_rate
                              = state.resources.food_cons_rate
                                    + (IF action = <<"RecruitCitizen">>
                                       THEN 1 * Milli ELSE 0)
                       /\ heads(outcome.val) >= heads(state)
                       /\ heads(outcome.val) > heads(state)
                              <=> action = <<"RecruitCitizen">>

\* A state reached by a call that recruited a second citizen, the first one
\* at work: two citizens, who eat 2 of food an iteration.
ConsumptionCountsCitizensWitness ==
    /\ applied > 0
    /\ state.log[Len(state.log)][1] = <<"RecruitCitizen">>
    /\ state.citizens.idle = 1
    /\ count(state.citizens) = 2
    /\ state.resources.food_cons_rate = 2 * Milli

\* C38 (check is total): on the save the driver holds and on every save
\* obtained from it by dropping its last nonce, by dropping all its nonces,
\* or by adding to its log one or two iterations no nonce was stored for,
\* check() returns Ok or a CheckError: it does not panic.
CheckTotal ==
    LET saves ==
            {state,
             [state EXCEPT !.nonces = SubSeq(@, 1, Len(@) - 1)],
             [state EXCEPT !.nonces = <<>>],
             [state EXCEPT !.log = Append(@, <<<<"Collect", "Food">>, 1>>)],
             [state EXCEPT !.log = Append(@, <<<<"Collect", "Food">>, 2>>)]}
    IN  \A save \in saves :
            \/ check(save) = Ok(<<>>)
            \/ check(save) = Err(<<"HashMismatch">>)
            \/ /\ ~check(save).ok
               /\ check(save).err[1] = "InvalidStateRecreation"

=============================================================================
